---- MODULE Spec2Model ----
(***************************************************************************)
(* DefaultVector and DefaultTransfer of openmdao/vectors/default_vector.py *)
(* as a state machine over a heap of NumPy arrays.                         *)
(*                                                                         *)
(* An ndarray is a window [lo, hi) of an allocation: slicing (a[i:j])      *)
(* makes a new window of the same allocation, numpy.array(a) and           *)
(* numpy.zeros(n) make a new allocation.  Arrays are indexed from 0 as in  *)
(* the source.  Numbers are integers: the operations use +, -, * only, and *)
(* get_norm's square root is the integer square root.                      *)
(***************************************************************************)
EXTENDS Integers, Sequences, FiniteSets, TLC

VARIABLES
    mem,    \* allocation id -> contents (an array indexed from 0)
    vec,    \* vector name -> the DefaultVector's fields
    xfer,   \* the DefaultTransfer's fields: keys (dict order), ip_inds, op_inds
    hist,   \* the last two calls, newest first, each with mem and vec before it
    cloned, \* the vectors that have run _clone_data
    nops    \* number of calls made

vars == <<mem, vec, xfer, hist, cloned, nops>>

----------------------------------------------------------------------------
(* Bounds of the model *)

\* calls made in one run
MaxOps == 2

\* index entries of a generated transfer map, all pairs together
MaxInds == 2

----------------------------------------------------------------------------
(* Arrays *)

Arr(s) == [i \in 0..(Len(s) - 1) |-> s[i + 1]]

size(a) == Cardinality(DOMAIN a)

zeros(n) == [i \in 0..(n - 1) |-> 0]

\* numpy.sum(a[:n])
RECURSIVE npsum(_, _)
npsum(a, n) == IF n <= 0 THEN 0 ELSE npsum(a, n - 1) + a[n - 1]

Min(a, b) == IF a <= b THEN a ELSE b

\* an ndarray object: the window [lo, hi) of allocation base
Ref(b, lo, hi) == [base |-> b, lo |-> lo, hi |-> hi]

RLen(r) == r.hi - r.lo

\* r[i:j] for 0 <= i: a view, clipped to r's length as Python slicing does
Slice(r, i, j) ==
    LET i2 == Min(i, RLen(r))
        j2 == Min(j, RLen(r))
    IN  Ref(r.base, r.lo + i2, r.lo + (IF j2 < i2 THEN i2 ELSE j2))

\* the values seen through r
Read(m, r) == [k \in 0..(RLen(r) - 1) |-> m[r.base][r.lo + k]]

\* r[:] = a, elementwise in place (size(a) = RLen(r))
Write(m, r, a) ==
    [m EXCEPT ![r.base] =
        [j \in DOMAIN @ |-> IF r.lo <= j /\ j < r.hi THEN a[j - r.lo] ELSE @[j]]]

----------------------------------------------------------------------------
(* The assembler's tables and the systems (given to this code, read only) *)

Typs == {"input", "output"}

\* self._iproc
iproc == 0

\* assembler._variable_sizes[typ][iset][iproc, ivar]
variable_sizes ==
    [input  |-> Arr(<< Arr(<< Arr(<<1, 2>>) >>) >>),
     output |-> Arr(<< Arr(<< Arr(<<2, 1>>) >>), Arr(<< Arr(<<1>>) >>) >>)]

\* assembler._variable_set_indices[typ][ivar_all, :] = (iset, ivar in the set)
variable_set_indices ==
    [input  |-> Arr(<< Arr(<<0, 0>>), Arr(<<0, 1>>) >>),
     output |-> Arr(<< Arr(<<0, 0>>), Arr(<<1, 0>>), Arr(<<0, 1>>) >>)]

VarNames ==
    [input  |-> Arr(<<"x0", "x1">>),
     output |-> Arr(<<"y0", "y1", "y2">>)]

NVars(typ) == size(variable_set_indices[typ])

\* a system owning the variables [r[1], r[2]) of each type on this process
System(rin, rout) ==
    LET rng == [input |-> rin, output |-> rout]
    IN  [variable_allprocs_range |-> rng,
         variable_myproc_indices |->
             [t \in Typs |-> [k \in 0..(rng[t][2] - rng[t][1] - 1) |-> rng[t][1] + k]],
         variable_myproc_names |->
             [t \in Typs |->
                 [k \in 0..(rng[t][2] - rng[t][1] - 1) |-> VarNames[t][rng[t][1] + k]]]]

RootSystem == System(<<0, NVars("input")>>, <<0, NVars("output")>>)

\* the variable ranges a subsystem may own
SysRanges == {r \in (0..NVars("output")) \X (0..NVars("output")) : r[1] <= r[2]}

----------------------------------------------------------------------------
(* DefaultVector: construction *)

\* _create_data: one zeros array per variable set, a new allocation each
create_data(name, typ) ==
    [iset \in DOMAIN variable_sizes[typ] |->
        Ref(<<name, iset>>, 0,
            npsum(variable_sizes[typ][iset][iproc],
                  size(variable_sizes[typ][iset][iproc])))]

\* sub_variable_set_indices[bool_vector, 1] of _extract_data, as a sequence
data_inds_of(sub, iset) ==
    LET rows == SelectSeq([k \in 1..size(sub) |-> sub[k - 1]],
                          LAMBDA row : row[0] = iset)
    IN  [k \in 1..Len(rows) |-> rows[k][1]]

\* variant of extract_data: the slice ends before the last variable
extract_data_short(name, typ, system, gdata) ==
    LET sizes == variable_sizes[typ]
        rng   == system.variable_allprocs_range[typ]
        sub   == [k \in 0..(rng[2] - rng[1] - 1) |->
                     variable_set_indices[typ][rng[1] + k]]
    IN  [iset \in DOMAIN sizes |->
            LET data_inds == data_inds_of(sub, iset)
            IN  IF Len(data_inds) > 0
                THEN Slice(gdata[iset],
                           npsum(sizes[iset][iproc], data_inds[1]),
                           npsum(sizes[iset][iproc], data_inds[Len(data_inds)]))
                ELSE Ref(<<name, iset>>, 0, 0)]

\* _extract_data: per variable set a view of the global vector's array over the
\* system's variables of that set, or a new zero-length array when it has none
extract_data(name, typ, system, gdata) ==
    LET sizes == variable_sizes[typ]
        rng   == system.variable_allprocs_range[typ]
        sub   == [k \in 0..(rng[2] - rng[1] - 1) |->
                     variable_set_indices[typ][rng[1] + k]]
    IN  [iset \in DOMAIN sizes |->
            LET data_inds == data_inds_of(sub, iset)
            IN  IF Len(data_inds) > 0
                THEN Slice(gdata[iset],
                           npsum(sizes[iset][iproc], data_inds[1]),
                           npsum(sizes[iset][iproc], data_inds[Len(data_inds)] + 1))
                ELSE Ref(<<name, iset>>, 0, 0)]

\* _initialize_data
initialize_data(name, typ, system, global_vector, gdata) ==
    IF global_vector = "None"
    THEN create_data(name, typ)
    ELSE extract_data(name, typ, system, gdata)

\* _initialize_views: name -> view of the GLOBAL vector's array of its set
initialize_views(typ, system, gdata) ==
    LET names == system.variable_myproc_names[typ]
        inds  == system.variable_myproc_indices[typ]
    IN  [nm \in {names[k] : k \in DOMAIN names} |->
            LET ind      == CHOOSE k \in DOMAIN names : names[k] = nm
                ivar_all == inds[ind]
                iset     == variable_set_indices[typ][ivar_all][0]
                ivar     == variable_set_indices[typ][ivar_all][1]
                ind1     == npsum(variable_sizes[typ][iset][iproc], ivar)
                ind2     == npsum(variable_sizes[typ][iset][iproc], ivar + 1)
            IN  Slice(gdata[iset], ind1, ind2)]

\* Vector.__init__(name, typ, system, global_vector): the global vector is the
\* vector itself when none is given; data first, then the views.
\* gdata is global_vector._data (unused when global_vector is None).
Vector(name, typ, system, global_vector, gdata) ==
    LET data == initialize_data(name, typ, system, global_vector, gdata)
        gv   == IF global_vector = "None" THEN name ELSE global_vector
        gd   == IF global_vector = "None" THEN data ELSE gdata
    IN  [typ    |-> typ,
         system |-> system,
         gv     |-> gv,
         data   |-> data,
         views  |-> initialize_views(typ, system, gd)]

----------------------------------------------------------------------------
(* DefaultVector: operations.  Each returns the new heap and how the call  *)
(* ended: "ok", or the exception NumPy or Python raises (the sets handled  *)
(* before the failing one stay changed).                                   *)

\* NumPy's shape rule for  a <op>= b  and  a[:] = b  on 1-d arrays: b is
\* used as it is when the lengths agree and repeated when it has length 1
Broadcastable(nb, na) == nb = na \/ nb = 1

Broadcast(b, n) == [k \in 0..(n - 1) |-> IF size(b) = 1 THEN b[0] ELSE b[k]]

Done(m, res) == [mem |-> m, res |-> res]

\* _clone_data: every array of _data becomes a copy in a new allocation;
\* _views is not touched
clone_data(m, name, self) ==
    [mem  |-> [a \in DOMAIN m |->
                  IF a[1] = name /\ a[2] \in DOMAIN self.data
                  THEN Read(m, self.data[a[2]])
                  ELSE m[a]],
     data |-> [iset \in DOMAIN self.data |->
                  Ref(<<name, iset>>, 0, RLen(self.data[iset]))]]

\* __iadd__
RECURSIVE iadd_from(_, _, _, _)
iadd_from(m, self, v, iset) ==
    IF iset >= size(self.data) THEN Done(m, "ok")
    ELSE IF iset \notin DOMAIN v.data THEN Done(m, "IndexError")
    ELSE IF ~Broadcastable(RLen(v.data[iset]), RLen(self.data[iset]))
         THEN Done(m, "ValueError")
    ELSE LET a == Read(m, self.data[iset])
             b == Broadcast(Read(m, v.data[iset]), size(a))
         IN  iadd_from(Write(m, self.data[iset], [k \in DOMAIN a |-> a[k] + b[k]]),
                       self, v, iset + 1)

iadd(m, self, v) == iadd_from(m, self, v, 0)

\* __isub__
RECURSIVE isub_from(_, _, _, _)
isub_from(m, self, v, iset) ==
    IF iset >= size(self.data) THEN Done(m, "ok")
    ELSE IF iset \notin DOMAIN v.data THEN Done(m, "IndexError")
    ELSE IF ~Broadcastable(RLen(v.data[iset]), RLen(self.data[iset]))
         THEN Done(m, "ValueError")
    ELSE LET a == Read(m, self.data[iset])
             b == Broadcast(Read(m, v.data[iset]), size(a))
         IN  isub_from(Write(m, self.data[iset], [k \in DOMAIN a |-> a[k] - b[k]]),
                       self, v, iset + 1)

isub(m, self, v) == isub_from(m, self, v, 0)

\* __imul__
RECURSIVE imul_from(_, _, _, _)
imul_from(m, self, val, iset) ==
    IF iset >= size(self.data) THEN Done(m, "ok")
    ELSE LET a == Read(m, self.data[iset])
         IN  imul_from(Write(m, self.data[iset], [k \in DOMAIN a |-> a[k] * val]),
                       self, val, iset + 1)

imul(m, self, val) == imul_from(m, self, val, 0)

\* add_scal_vec:  self._data[iset] *= val * vec._data[iset]
RECURSIVE add_scal_vec_from(_, _, _, _, _)
add_scal_vec_from(m, self, val, v, iset) ==
    IF iset >= size(self.data) THEN Done(m, "ok")
    ELSE IF iset \notin DOMAIN v.data THEN Done(m, "IndexError")
    ELSE IF ~Broadcastable(RLen(v.data[iset]), RLen(self.data[iset]))
         THEN Done(m, "ValueError")
    ELSE LET a == Read(m, self.data[iset])
             b == Broadcast(Read(m, v.data[iset]), size(a))
         IN  add_scal_vec_from(
                 Write(m, self.data[iset], [k \in DOMAIN a |-> a[k] * (val * b[k])]),
                 self, val, v, iset + 1)

add_scal_vec(m, self, val, v) == add_scal_vec_from(m, self, val, v, 0)

\* variant of set_vec: only the first variable set is copied
set_vec_first_set(m, self, v) ==
    IF 0 \in DOMAIN self.data /\ 0 \in DOMAIN v.data
       /\ Broadcastable(RLen(v.data[0]), RLen(self.data[0]))
    THEN Done(Write(m, self.data[0],
                    Broadcast(Read(m, v.data[0]), RLen(self.data[0]))), "ok")
    ELSE Done(m, "ok")

\* set_vec:  self._data[iset][:] = vec._data[iset]
RECURSIVE set_vec_from(_, _, _, _)
set_vec_from(m, self, v, iset) ==
    IF iset >= size(self.data) THEN Done(m, "ok")
    ELSE IF iset \notin DOMAIN v.data THEN Done(m, "IndexError")
    ELSE IF ~Broadcastable(RLen(v.data[iset]), RLen(self.data[iset]))
         THEN Done(m, "ValueError")
    ELSE set_vec_from(
             Write(m, self.data[iset],
                   Broadcast(Read(m, v.data[iset]), RLen(self.data[iset]))),
             self, v, iset + 1)

set_vec(m, self, v) == set_vec_from(m, self, v, 0)

\* set_const
RECURSIVE set_const_from(_, _, _, _)
set_const_from(m, self, val, iset) ==
    IF iset >= size(self.data) THEN Done(m, "ok")
    ELSE set_const_from(
             Write(m, self.data[iset], [k \in 0..(RLen(self.data[iset]) - 1) |-> val]),
             self, val, iset + 1)

set_const(m, self, val) == set_const_from(m, self, val, 0)

\* numpy.sum(data**2)
RECURSIVE sumsq(_, _)
sumsq(a, n) == IF n <= 0 THEN 0 ELSE sumsq(a, n - 1) + a[n - 1] * a[n - 1]

\* global_sum of get_norm after the sets before iset
RECURSIVE global_sum(_, _, _)
global_sum(m, self, iset) ==
    IF iset <= 0 THEN 0
    ELSE global_sum(m, self, iset - 1)
         + sumsq(Read(m, self.data[iset - 1]), RLen(self.data[iset - 1]))

\* x ** 0.5, rounded down
isqrt(x) == CHOOSE r \in 0..x : r * r <= x /\ x < (r + 1) * (r + 1)

\* get_norm
get_norm(m, self) == isqrt(global_sum(m, self, size(self.data)))

\* vec[name][k] = val: a write through the view of a variable
setitem(m, self, nm, k, val) ==
    LET r == self.views[nm]
    IN  [m EXCEPT ![r.base][r.lo + k] = val]

----------------------------------------------------------------------------
(* DefaultTransfer *)

\* a[inds]
fancy_get(a, inds) == [k \in DOMAIN inds |-> a[inds[k]]]

\* a[inds] = vals: the entries are assigned in order
RECURSIVE fancy_set_from(_, _, _, _)
fancy_set_from(a, inds, vals, k) ==
    IF k >= size(inds) THEN a
    ELSE fancy_set_from([a EXCEPT ![inds[k]] = vals[k]], inds, vals, k + 1)

fancy_set(a, inds, vals) == fancy_set_from(a, inds, vals, 0)

\* variant of add_at: the buffered  a[inds] += vals, where the last entry
\* of a repeated index wins
add_at_buffered(a, inds, vals) ==
    fancy_set(a, inds, [k \in DOMAIN inds |-> a[inds[k]] + vals[k]])

\* numpy.add.at(a, inds, vals): unbuffered, every entry is added
RECURSIVE add_at_from(_, _, _, _)
add_at_from(a, inds, vals, k) ==
    IF k >= size(inds) THEN a
    ELSE add_at_from([a EXCEPT ![inds[k]] = @ + vals[k]], inds, vals, k + 1)

add_at(a, inds, vals) == add_at_from(a, inds, vals, 0)

\* variant of fwd_pair: the values flow from the input vector to the output
fwd_pair_reversed(m, x, ipd, opd, key) ==
    IF size(x.ip_inds[key]) > 0
    THEN LET tmp == fancy_get(Read(m, ipd[key[1]]), x.ip_inds[key])
         IN  Write(m, opd[key[2]],
                   fancy_set(Read(m, opd[key[2]]), x.op_inds[key], tmp))
    ELSE m

\* the body of the 'fwd' loop for one key
fwd_pair(m, x, ipd, opd, key) ==
    LET ip_iset == key[1]
        op_iset == key[2]
    IN  IF size(x.ip_inds[key]) > 0
        THEN LET tmp == fancy_get(Read(m, opd[op_iset]), x.op_inds[key])
             IN  Write(m, ipd[ip_iset],
                       fancy_set(Read(m, ipd[ip_iset]), x.ip_inds[key], tmp))
        ELSE m

\* variant of rev_pair: the values are assigned, not added
rev_pair_assign(m, x, ipd, opd, key) ==
    IF size(x.ip_inds[key]) > 0
    THEN LET tmp == fancy_get(Read(m, ipd[key[1]]), x.ip_inds[key])
         IN  Write(m, opd[key[2]],
                   fancy_set(Read(m, opd[key[2]]), x.op_inds[key], tmp))
    ELSE m

\* variant of rev_pair: the two index arrays change places
rev_pair_swapped(m, x, ipd, opd, key) ==
    IF size(x.ip_inds[key]) > 0
    THEN LET tmp == fancy_get(Read(m, ipd[key[1]]), x.op_inds[key])
         IN  Write(m, opd[key[2]],
                   add_at(Read(m, opd[key[2]]), x.ip_inds[key], tmp))
    ELSE m

\* the body of the 'rev' loop for one key
rev_pair(m, x, ipd, opd, key) ==
    LET ip_iset == key[1]
        op_iset == key[2]
    IN  IF size(x.ip_inds[key]) > 0
        THEN LET tmp == fancy_get(Read(m, ipd[ip_iset]), x.ip_inds[key])
             IN  Write(m, opd[op_iset],
                       add_at(Read(m, opd[op_iset]), x.op_inds[key], tmp))
        ELSE m

\* the loop over the keys of self._ip_inds, from the k-th in the dict's order
RECURSIVE transfer_from(_, _, _, _, _, _)
transfer_from(m, x, ipd, opd, mode, k) ==
    IF k > Len(x.keys) THEN m
    ELSE transfer_from(
             IF mode = "fwd" THEN fwd_pair(m, x, ipd, opd, x.keys[k])
                             ELSE rev_pair(m, x, ipd, opd, x.keys[k]),
             x, ipd, opd, mode, k + 1)

\* DefaultTransfer.__call__ on the global vectors' arrays ipd and opd
transfer_call(m, x, ipd, opd, mode) ==
    IF mode = "fwd" THEN Done(transfer_from(m, x, ipd, opd, "fwd", 1), "ok")
    ELSE IF mode = "rev" THEN Done(transfer_from(m, x, ipd, opd, "rev", 1), "ok")
    ELSE Done(m, "ok")

----------------------------------------------------------------------------
(* The state *)

\* "I": the root input vector, "O": the root output vector, "S": the output
\* vector of a subsystem, built from O as its global vector
Names == {"I", "O", "S"}

AllocIds == {<<"I", 0>>, <<"O", 0>>, <<"O", 1>>, <<"S", 0>>, <<"S", 1>>}

\* the three vectors as constructed, S for a subsystem owning the range r
Vectors(r) ==
    LET I == Vector("I", "input", RootSystem, "None", <<>>)
        O == Vector("O", "output", RootSystem, "None", <<>>)
    IN  [I |-> I,
         O |-> O,
         S |-> Vector("S", "output", System(<<0, 0>>, r), "O", O.data)]

\* the heap after the construction: numpy.zeros for every array made
FreshMem(v) ==
    [a \in AllocIds |->
        IF a[2] \in DOMAIN v[a[1]].data /\ v[a[1]].data[a[2]].base = a
        THEN zeros(RLen(v[a[1]].data[a[2]]))
        ELSE zeros(0)]

\* _global_vector._data of a vector
gdata(v, name) == v[v[name].gv].data

Call(op, self, other, val, mode, res) ==
    [op |-> op, self |-> self, other |-> other, val |-> val, mode |-> mode,
     res |-> res, pre |-> mem, vpre |-> vec]

Log(c) ==
    /\ hist' = <<c>> \o (IF hist = <<>> THEN <<>> ELSE <<hist[1]>>)
    /\ nops' = nops + 1

\* the values the calls are made with
Scalars == {2}

Vals == {1}

Modes == {"fwd", "rev", "adj"}

----------------------------------------------------------------------------
(* The calls *)

IAdd(s, o) ==
    /\ nops < MaxOps
    /\ LET r == iadd(mem, vec[s], vec[o])
       IN  mem' = r.mem /\ Log(Call("iadd", s, o, 0, "", r.res))
    /\ UNCHANGED <<vec, xfer, cloned>>

ISub(s, o) ==
    /\ nops < MaxOps
    /\ LET r == isub(mem, vec[s], vec[o])
       IN  mem' = r.mem /\ Log(Call("isub", s, o, 0, "", r.res))
    /\ UNCHANGED <<vec, xfer, cloned>>

IMul(s, val) ==
    /\ nops < MaxOps
    /\ LET r == imul(mem, vec[s], val)
       IN  mem' = r.mem /\ Log(Call("imul", s, "", val, "", r.res))
    /\ UNCHANGED <<vec, xfer, cloned>>

AddScalVec(s, val, o) ==
    /\ nops < MaxOps
    /\ LET r == add_scal_vec(mem, vec[s], val, vec[o])
       IN  mem' = r.mem /\ Log(Call("add_scal_vec", s, o, val, "", r.res))
    /\ UNCHANGED <<vec, xfer, cloned>>

SetVec(s, o) ==
    /\ nops < MaxOps
    /\ LET r == set_vec(mem, vec[s], vec[o])
       IN  mem' = r.mem /\ Log(Call("set_vec", s, o, 0, "", r.res))
    /\ UNCHANGED <<vec, xfer, cloned>>

SetConst(s, val) ==
    /\ nops < MaxOps
    /\ LET r == set_const(mem, vec[s], val)
       IN  mem' = r.mem /\ Log(Call("set_const", s, "", val, "", r.res))
    /\ UNCHANGED <<vec, xfer, cloned>>

\* the norm is returned: val of the logged call
GetNorm(s) ==
    /\ nops < MaxOps
    /\ Log(Call("get_norm", s, "", get_norm(mem, vec[s]), "", "ok"))
    /\ UNCHANGED <<mem, vec, xfer, cloned>>

CloneData(s) ==
    /\ nops < MaxOps
    /\ LET r == clone_data(mem, s, vec[s])
       IN  /\ mem' = r.mem
           /\ vec' = [vec EXCEPT ![s].data = r.data]
           /\ Log(Call("clone_data", s, "", 0, "", "ok"))
    /\ cloned' = cloned \cup {s}
    /\ UNCHANGED xfer

\* a write of val to element k of the view of variable nm of vector s
SetItem(s, nm, k, val) ==
    /\ nops < MaxOps
    /\ nm \in DOMAIN vec[s].views
    /\ k < RLen(vec[s].views[nm])
    /\ mem' = setitem(mem, vec[s], nm, k, val)
    /\ Log(Call("setitem", s, nm, val, "", "ok"))
    /\ UNCHANGED <<vec, xfer, cloned>>

\* transfer(ip_vec, op_vec, mode)
Transfer(ipv, opv, mode) ==
    /\ nops < MaxOps
    /\ LET r == transfer_call(mem, xfer, gdata(vec, ipv), gdata(vec, opv), mode)
       IN  mem' = r.mem /\ Log(Call("transfer", ipv, opv, 0, mode, r.res))
    /\ UNCHANGED <<vec, xfer, cloned>>

----------------------------------------------------------------------------
(* Spec: the vectors from their construction on.  The subsystem's range is *)
(* any range of the output variables; the transfer is the one the          *)
(* assembler built for the connections below.                              *)

\* y2 feeds x0 and the first element of x1, y1 feeds the second element of x1
AssembledTransfer ==
    [keys    |-> << <<0, 0>>, <<0, 1>> >>,
     ip_inds |-> (<<0, 0>> :> Arr(<<0, 1>>)) @@ (<<0, 1>> :> Arr(<<2>>)),
     op_inds |-> (<<0, 0>> :> Arr(<<2, 2>>)) @@ (<<0, 1>> :> Arr(<<0>>))]

Init ==
    \E r \in SysRanges :
        /\ vec = Vectors(r)
        /\ mem = FreshMem(Vectors(r))
        /\ xfer = AssembledTransfer
        /\ hist = <<>>
        /\ cloned = {}
        /\ nops = 0

Next ==
    \/ \E s \in Names : \E o \in Names \ {s} : IAdd(s, o)
    \/ \E s \in Names : \E o \in Names \ {s} : ISub(s, o)
    \/ \E s \in Names, val \in Scalars : IMul(s, val)
    \/ \E s \in Names : \E o \in Names \ {s}, val \in Scalars : AddScalVec(s, val, o)
    \/ \E s \in Names : \E o \in Names \ {s} : SetVec(s, o)
    \/ \E s \in Names, val \in Vals : SetConst(s, val)
    \/ \E s \in Names : GetNorm(s)
    \/ CloneData("S")
    \/ \E s \in Names, nm \in {"x0", "x1", "y0", "y1", "y2"}, k \in 0..1, val \in Vals :
           SetItem(s, nm, k, val)
    \/ \E opv \in {"O", "S"}, mode \in Modes : Transfer("I", opv, mode)

Spec == Init /\ [][Next]_vars

----------------------------------------------------------------------------
(* SpecTransfer: transfers between the two root vectors, for every index   *)
(* map of at most MaxInds entries and for the example map of the           *)
(* documentation, from vectors that hold values.                           *)

BufLen(typ, iset) ==
    npsum(variable_sizes[typ][iset][iproc], size(variable_sizes[typ][iset][iproc]))

\* the keys (ip_iset, op_iset) a transfer may hold
Keys == (DOMAIN variable_sizes["input"]) \X (DOMAIN variable_sizes["output"])

\* the index arrays <<ip_inds, op_inds>> of n entries for a key, in range
PairInds(key, n) ==
    [0..(n - 1) -> 0..(BufLen("input", key[1]) - 1)]
        \X [0..(n - 1) -> 0..(BufLen("output", key[2]) - 1)]

Image(a) == {a[k] : k \in DOMAIN a}

\* an input element has one source variable, which lies in one variable
\* set: two keys never address the same input element
OneSourceSet(f, K) ==
    \A k1 \in K, k2 \in K :
        (k1 # k2 /\ k1[1] = k2[1]) => Image(f[k1][1]) \cap Image(f[k2][1]) = {}

\* the index arrays of the keys K with at most budget entries together
RECURSIVE IndsOver(_, _)
IndsOver(K, budget) ==
    IF K = {} THEN {<<>>}
    ELSE LET k == CHOOSE k \in K : TRUE
         IN  UNION {{(k :> p) @@ g : p \in PairInds(k, n),
                                     g \in IndsOver(K \ {k}, budget - n)} :
                    n \in 0..budget}

\* the iteration orders of a dict with the keys K
Orders(K) ==
    {q \in [1..Cardinality(K) -> K] : \A i, j \in DOMAIN q : i # j => q[i] # q[j]}

TransfersOver(K) ==
    LET fs == {f \in IndsOver(K, MaxInds) : OneSourceSet(f, K)}
    IN  UNION {{[keys    |-> q,
                 ip_inds |-> [k \in K |-> f[k][1]],
                 op_inds |-> [k \in K |-> f[k][2]]] : q \in Orders(K)} : f \in fs}

GeneratedTransfers == UNION {TransfersOver(K) : K \in SUBSET Keys}

\* the documented example: pair (iset0, iset0), src_inds = [0,0,1] on the
\* output side, dst_inds = [1,2,0] on the input side
ExampleTransfer ==
    [keys    |-> << <<0, 0>> >>,
     ip_inds |-> (<<0, 0>> :> Arr(<<1, 2, 0>>)),
     op_inds |-> (<<0, 0>> :> Arr(<<0, 0, 1>>))]

\* the values the vectors hold when the transfers start
InputValues == {<< <<10, 20, 30>> >>}

OutputValues == {<< <<0, 0, 0>>, <<0>> >>, << <<1, 2, 3>>, <<0>> >>,
                 << <<0, 0, 0>>, <<4>> >>, << <<1, 2, 3>>, <<4>> >>}

\* the heap with the arrays of vector name holding vals (one tuple per set)
Filled(m, v, name, vals) ==
    [a \in DOMAIN m |->
        IF a[1] = name /\ a[2] \in DOMAIN v[name].data /\ v[name].data[a[2]].base = a
        THEN Arr(vals[a[2] + 1])
        ELSE m[a]]

InitTransfer ==
    \E x \in GeneratedTransfers \cup {ExampleTransfer},
       iv \in InputValues, ov \in OutputValues :
        LET v == Vectors(<<0, NVars("output")>>)
        IN  /\ vec = v
            /\ mem = Filled(Filled(FreshMem(v), v, "I", iv), v, "O", ov)
            /\ xfer = x
            /\ hist = <<>>
            /\ cloned = {}
            /\ nops = 0

NextTransfer == \E mode \in Modes : Transfer("I", "O", mode)

SpecTransfer == InitTransfer /\ [][NextTransfer]_vars

----------------------------------------------------------------------------
(* SpecAlgebra: the arithmetic between the root output vector and a clone  *)
(* of it (a vector built over all its variables that has run _clone_data), *)
(* from vectors that hold values.                                          *)

CellValues == {0, 1}

\* the values of an output vector, one tuple per variable set
AlgebraValues ==
    {<< <<a, b, c>>, <<d>> >> : a \in CellValues, b \in CellValues,
                               c \in CellValues, d \in {0, 3}}

CloneValues == {<< <<2, 0, 5>>, <<0>> >>, << <<0, 7, 0>>, <<6>> >>}

InitAlgebra ==
    \E ov \in AlgebraValues, sv \in CloneValues :
        LET v == Vectors(<<0, NVars("output")>>)
            c == clone_data(FreshMem(v), "S", v["S"])
            w == [v EXCEPT !["S"].data = c.data]
        IN  /\ vec = w
            /\ mem = Filled(Filled(c.mem, w, "O", ov), w, "S", sv)
            /\ xfer = AssembledTransfer
            /\ hist = <<>>
            /\ cloned = {"S"}
            /\ nops = 0

Pairs == {<<"O", "S">>, <<"S", "O">>}

NextAlgebra ==
    \/ \E p \in Pairs : IAdd(p[1], p[2])
    \/ \E p \in Pairs : ISub(p[1], p[2])
    \/ \E p \in Pairs, val \in Scalars : AddScalVec(p[1], val, p[2])
    \/ \E p \in Pairs : SetVec(p[1], p[2])
    \/ \E s \in {"O", "S"}, val \in Scalars : IMul(s, val)
    \/ \E s \in {"O", "S"}, val \in Vals : SetConst(s, val)
    \/ \E s \in {"O", "S"} : GetNorm(s)

SpecAlgebra == InitAlgebra /\ [][NextAlgebra]_vars

----------------------------------------------------------------------------
(* What the claims speak of *)

RECURSIVE SumF(_, _)
SumF(f, D) ==
    IF D = {} THEN 0
    ELSE LET x == CHOOSE x \in D : TRUE
         IN  f[x] + SumF(f, D \ {x})

\* the entries <<key, k>> of the index map
Entries == UNION {{<<key, k>> : k \in DOMAIN xfer.ip_inds[key]} : key \in DOMAIN xfer.ip_inds}

\* the input and the output element an entry connects: <<iset, index>>
InCell(e) == <<e[1][1], xfer.ip_inds[e[1]][e[2]]>>

OutCell(e) == <<e[1][2], xfer.op_inds[e[1]][e[2]]>>

NoDuplicates(a) == \A i, j \in DOMAIN a : i # j => a[i] # a[j]

\* a one-to-one index map: no input and no output element occurs twice
OneToOne ==
    \A e1, e2 \in Entries :
        e1 # e2 => (InCell(e1) # InCell(e2) /\ OutCell(e1) # OutCell(e2))

LastIs(op) == hist # <<>> /\ hist[1].op = op

LastTransfer(mode) == LastIs("transfer") /\ hist[1].mode = mode

\* buffer iset of a root vector in heap m
Buffer(m, name, iset) == Read(m, vec[name].data[iset])

Sets(name) == DOMAIN vec[name].data

Cells(name, iset) == 0..(RLen(vec[name].data[iset]) - 1)

----------------------------------------------------------------------------
(* C1  Reverse transfer accumulates: after a reverse transfer every        *)
(* element j of every output buffer holds its value before the call plus   *)
(* the sum of the input elements (read before the call) of all the map     *)
(* entries that address j; entries that address the same element are all   *)
(* summed, elements addressed by no entry are unchanged, and the input     *)
(* vector is unchanged.                                                    *)
C1_ReverseAccumulates ==
    LastTransfer("rev") =>
        LET pre == hist[1].pre
        IN  /\ \A iset \in Sets("O") : \A j \in Cells("O", iset) :
                   LET E == {e \in Entries : OutCell(e) = <<iset, j>>}
                   IN  Buffer(mem, "O", iset)[j] =
                           Buffer(pre, "O", iset)[j]
                           + SumF([e \in E |-> Buffer(pre, "I", InCell(e)[1])[InCell(e)[2]]], E)
            /\ \A iset \in Sets("I") : Buffer(mem, "I", iset) = Buffer(pre, "I", iset)

\* a reverse transfer has added two entries into one output element
C1_Witness ==
    /\ LastTransfer("rev")
    /\ \E e1, e2 \in Entries : e1 # e2 /\ OutCell(e1) = OutCell(e2)
    /\ mem # hist[1].pre

RoundTrip ==
    /\ Len(hist) = 2
    /\ hist[2].op = "transfer" /\ hist[2].mode = "fwd"
    /\ LastTransfer("rev")
    /\ OneToOne

(* C3 as stated  Round trip: a forward transfer followed at once by a      *)
(* reverse transfer with a one-to-one map leaves the output buffers as     *)
(* they were before the forward call.                                      *)
C3_RoundTripRestores ==
    RoundTrip =>
        \A iset \in Sets("O") : Buffer(mem, "O", iset) = Buffer(hist[2].pre, "O", iset)

(* C3 as amended  After a forward and then a reverse transfer with a       *)
(* one-to-one map, every output element the map addresses holds twice the  *)
(* value it had before the forward call, every other output element holds  *)
(* its value from before, and every addressed input element holds the      *)
(* value its output element had before the forward call.                   *)
C3_RoundTripDoubles ==
    RoundTrip =>
        LET orig == hist[2].pre
        IN  /\ \A iset \in Sets("O") : \A j \in Cells("O", iset) :
                   Buffer(mem, "O", iset)[j] =
                       IF \E e \in Entries : OutCell(e) = <<iset, j>>
                       THEN 2 * Buffer(orig, "O", iset)[j]
                       ELSE Buffer(orig, "O", iset)[j]
            /\ \A e \in Entries :
                   Buffer(mem, "I", InCell(e)[1])[InCell(e)[2]]
                       = Buffer(orig, "O", OutCell(e)[1])[OutCell(e)[2]]

\* a round trip over a one-to-one map that addresses a non-zero output element
C3_Witness ==
    /\ RoundTrip
    /\ \E e \in Entries : Buffer(hist[2].pre, "O", OutCell(e)[1])[OutCell(e)[2]] # 0

\* the documented example: its map, a reverse transfer, input [10, 20, 30]
ExampleRun ==
    /\ xfer = ExampleTransfer
    /\ LastTransfer("rev")
    /\ Buffer(hist[1].pre, "I", 0) = Arr(<<10, 20, 30>>)

(* C4 as stated  Example: with src_inds = [0,0,1], dst_inds = [1,2,0] and  *)
(* the input buffer [10,20,30] a reverse transfer changes the output       *)
(* buffer by out[1] += 10, out[2] += 10 and out[0] += 20.                  *)
C4_ExampleIncrements ==
    ExampleRun =>
        LET out == Buffer(mem, "O", 0)
            old == Buffer(hist[1].pre, "O", 0)
        IN  out[1] = old[1] + 10 /\ out[2] = old[2] + 10 /\ out[0] = old[0] + 20

(* C4 as amended  Example: with src_inds = [0,0,1] (output side),          *)
(* dst_inds = [1,2,0] (input side) and the input buffer [10,20,30] a       *)
(* reverse transfer changes the output buffer by out[0] += 20 + 30,        *)
(* out[1] += 10, and leaves out[2] as it was.                              *)
C4_ExampleIncrementsOfTheCode ==
    ExampleRun =>
        LET out == Buffer(mem, "O", 0)
            old == Buffer(hist[1].pre, "O", 0)
        IN  out[0] = old[0] + 50 /\ out[1] = old[1] + 10 /\ out[2] = old[2]

\* the example has run from an output buffer that held values
C4_Witness ==
    /\ ExampleRun
    /\ Buffer(hist[1].pre, "O", 0) = Arr(<<1, 2, 3>>)

(* C5  A transfer called with a mode other than 'fwd' and 'rev' ends in an *)
(* error, never normally.                                                  *)
C5_InvalidModeRaises ==
    (LastIs("transfer") /\ hist[1].mode \notin {"fwd", "rev"}) => hist[1].res # "ok"

----------------------------------------------------------------------------

\* the two vectors have the same sets and the same length in every set
SameStructure(v, a, b) ==
    /\ DOMAIN v[a].data = DOMAIN v[b].data
    /\ \A iset \in DOMAIN v[a].data : RLen(v[a].data[iset]) = RLen(v[b].data[iset])

TwoVectorOps == {"iadd", "isub", "add_scal_vec", "set_vec"}

(* C6  iadd, isub, add_scal_vec and set_vec end in an error whenever the   *)
(* other vector's sets or buffer lengths differ from the receiver's; they  *)
(* never end normally then.                                                *)
C6_MismatchFailsFast ==
    (hist # <<>> /\ hist[1].op \in TwoVectorOps
     /\ ~SameStructure(hist[1].vpre, hist[1].self, hist[1].other))
        => hist[1].res # "ok"

\* the last call changed vector S: arithmetic on it, a write through one of
\* its views, or a reverse transfer with S as the output vector
MutatesS ==
    /\ hist # <<>>
    /\ \/ /\ hist[1].op \in TwoVectorOps \cup {"imul", "set_const", "setitem"}
          /\ hist[1].self = "S"
       \/ /\ hist[1].op = "transfer" /\ hist[1].other = "S" /\ hist[1].mode = "rev"

(* C7  _clone_data breaks aliasing: it leaves the values of S's buffers as *)
(* they were, and after it no change made to S (arithmetic, a write        *)
(* through a view of S, a transfer into S) changes the buffers of its      *)
(* parent O.                                                               *)
C7_CloneBreaksAliasing ==
    /\ (LastIs("clone_data") /\ hist[1].self = "S") =>
           \A iset \in Sets("S") :
               Read(mem, vec["S"].data[iset])
                   = Read(hist[1].pre, hist[1].vpre["S"].data[iset])
    /\ (MutatesS /\ "S" \in cloned) =>
           \A iset \in Sets("O") : Buffer(mem, "O", iset) = Buffer(hist[1].pre, "O", iset)

\* the variable of a name, and its place in the assembler's tables
VarIndex(typ, nm) == CHOOSE g \in DOMAIN VarNames[typ] : VarNames[typ][g] = nm

SetOf(typ, g) == variable_set_indices[typ][g][0]

VarSize(typ, g) ==
    variable_sizes[typ][SetOf(typ, g)][iproc][variable_set_indices[typ][g][1]]

\* the variables of the set of g that come before g in the set
Before(typ, g) ==
    {h \in DOMAIN variable_set_indices[typ] :
        /\ SetOf(typ, h) = SetOf(typ, g)
        /\ variable_set_indices[typ][h][1] < variable_set_indices[typ][g][1]}

\* cumsum(sizes[:ivar]) for variable g
Offset(typ, g) == SumF([h \in Before(typ, g) |-> VarSize(typ, h)], Before(typ, g))

\* the variables of a set that a system owns
Owned(system, typ, iset) ==
    {g \in DOMAIN variable_set_indices[typ] :
        /\ system.variable_allprocs_range[typ][1] <= g
        /\ g < system.variable_allprocs_range[typ][2]
        /\ SetOf(typ, g) = iset}

(* C9  View and buffer agree: in every state the view of each variable of  *)
(* each vector is a span of the buffer of its set in that vector, the one  *)
(* the arithmetic acts on (so reads and writes through the view are reads  *)
(* and writes of the buffer), it starts after the owned variables of the   *)
(* set that precede it and has the variable's size, and the views of two   *)
(* variables of a set do not overlap.                                      *)
C9_ViewsAreSpansOfTheBuffer ==
    \A name \in Names : \A nm \in DOMAIN vec[name].views :
        LET typ   == vec[name].typ
            g     == VarIndex(typ, nm)
            view  == vec[name].views[nm]
            data  == vec[name].data[SetOf(typ, g)]
            first == Owned(vec[name].system, typ, SetOf(typ, g)) \cap Before(typ, g)
        IN  /\ view.base = data.base
            /\ view.lo - data.lo = SumF([h \in first |-> VarSize(typ, h)], first)
            /\ RLen(view) = VarSize(typ, g)
            /\ view.hi <= data.hi
            /\ \A nm2 \in DOMAIN vec[name].views :
                   (nm2 # nm /\ vec[name].views[nm2].base = view.base) =>
                       \/ vec[name].views[nm2].hi <= view.lo
                       \/ view.hi <= vec[name].views[nm2].lo

(* C10  Aliased extraction: until S runs _clone_data it has one buffer per *)
(* variable set; the buffer of a set is the window of O's buffer of that   *)
(* set over exactly the variables of the set that S's system owns (as long *)
(* as their sizes together, holding the view of each of them), so a change *)
(* made through S shows in O; and it is a zero-length array when the       *)
(* system owns no variable of the set.                                     *)
C10_AliasedExtraction ==
    "S" \notin cloned =>
        /\ Sets("S") = DOMAIN variable_sizes["output"]
        /\ \A iset \in Sets("S") :
               LET data == vec["S"].data[iset]
                   own  == Owned(vec["S"].system, "output", iset)
               IN  /\ RLen(data) = SumF([g \in own |-> VarSize("output", g)], own)
                   /\ own # {} =>
                          /\ data.base = vec["O"].data[iset].base
                          /\ data.lo..(data.hi - 1) =
                                 UNION {Offset("output", g)..
                                        (Offset("output", g) + VarSize("output", g) - 1) :
                                        g \in own}
                   /\ \A g \in own :
                          LET view == vec["S"].views[VarNames["output"][g]]
                          IN  /\ view.base = data.base
                              /\ data.lo <= view.lo /\ view.hi <= data.hi
                   /\ (LastIs("set_const") /\ hist[1].self = "S") =>
                          \A g \in own :
                              \A j \in Offset("output", g)..
                                       (Offset("output", g) + VarSize("output", g) - 1) :
                                  Buffer(mem, "O", iset)[j] = hist[1].val

\* S, built for a system that owns variables of one set and none of the
\* other, has been filled with a constant
C10_Witness ==
    /\ "S" \notin cloned
    /\ LastIs("set_const") /\ hist[1].self = "S" /\ hist[1].val # 0
    /\ \E iset \in Sets("S") : RLen(vec["S"].data[iset]) = 0
    /\ \E iset \in Sets("S") : RLen(vec["S"].data[iset]) > 1

----------------------------------------------------------------------------

\* a call of set_vec and then of isub on the same two vectors, which have the
\* same structure and share no array
AssignThenSubtract ==
    /\ Len(hist) = 2
    /\ hist[2].op = "set_vec" /\ hist[1].op = "isub"
    /\ hist[1].self = hist[2].self /\ hist[1].other = hist[2].other
    /\ SameStructure(vec, hist[1].self, hist[1].other)
    /\ \A i \in Sets(hist[1].self), j \in Sets(hist[1].other) :
           vec[hist[1].self].data[i].base # vec[hist[1].other].data[j].base

(* C8  For two vectors A and B of the same structure, A.set_vec(B) and     *)
(* then A -= B leave every element of A zero (so the norm is 0) and B as   *)
(* it was; set_vec copies the values element for element into A's own      *)
(* arrays, which stay A's own.                                             *)
C8_AssignThenSubtractIsZero ==
    AssignThenSubtract =>
        LET A == hist[1].self
            B == hist[1].other
        IN  /\ hist[2].res = "ok" /\ hist[1].res = "ok"
            /\ \A iset \in Sets(A) : \A k \in Cells(A, iset) : Buffer(mem, A, iset)[k] = 0
            /\ get_norm(mem, vec[A]) = 0
            /\ \A iset \in Sets(B) : Buffer(mem, B, iset) = Buffer(hist[2].pre, B, iset)
            /\ \A iset \in Sets(A) :
                   Buffer(hist[1].pre, A, iset) = Buffer(hist[2].pre, B, iset)
            /\ hist[1].vpre = hist[2].vpre /\ vec = hist[2].vpre

\* the two calls have run on vectors that held different, non-zero values
C8_Witness ==
    /\ AssignThenSubtract
    /\ \A iset \in Sets(hist[1].other) : \E k \in Cells(hist[1].other, iset) :
           Buffer(mem, hist[1].other, iset)[k] # 0
    /\ \A iset \in Sets(hist[1].self) :
           Buffer(hist[2].pre, hist[1].self, iset) # Buffer(hist[2].pre, hist[1].other, iset)

====
